---- MODULE Spec2Model ----
(***************************************************************************)
(* DPLL SAT solver (DPLLSolver.cpp), DIMACS parser (CNFParser.cpp) and the *)
(* driver (main.cpp) of joseemds/paa, as a state machine.                  *)
(*                                                                         *)
(* The recursion of DPLLSolver::DPLL() is an explicit stack of frames; one *)
(* action is one step of the code between two observable points: entering  *)
(* propagate(), one iteration of its for loop, the end of one pass of its   *)
(* while loop, the code of DPLL() after propagate() returned, the code of   *)
(* DPLL() after a recursive call returned, and the return of solve().       *)
(***************************************************************************)
EXTENDS Integers, Sequences, FiniteSets

VARIABLES
  input,        \* the file main() is given: [readable, lines]
  lineNo,       \* parse(): number of lines std::getline has consumed
  headerFound,  \* parse(): local headerFound
  indeterminate,\* fields of the Formula that no code has written yet
  formula,      \* Formula: [numVariables, numClauses, clauses]
  assigns,      \* DPLLSolver::assigns, a function on 0..numVariables
  stack,        \* active DPLL() calls, outermost first
  ctl,          \* where the program is
  i,            \* propagate(): index of the for loop
  changed,      \* propagate(): local changed
  result,       \* value returned by the last propagate() or DPLL() call
  propEntry,    \* history: assigns when the current propagate() was entered
  retEntry,     \* history: assigns when the DPLL() call that just returned was entered
  verdict,      \* value returned by solve(): "none", TRUE or FALSE
  runs,         \* number of solve() calls started on this solver instance
  first         \* history: outcome of the first solve() call

vars == << input, lineNo, headerFound, indeterminate, formula, assigns, stack, ctl, i,
           changed, result, propEntry, retEntry, verdict, runs, first >>

(***************************************************************************)
(* Bounds of the model.                                                    *)
(***************************************************************************)
MaxVars == 2
MaxClauses == 3
MaxLits == 2
MaxLines == 2
MaxRuns == 2

(***************************************************************************)
(* Helpers.                                                                *)
(***************************************************************************)
abs(x) == IF x < 0 THEN -x ELSE x

SeqsUpTo(S, n) == UNION { [1..k -> S] : k \in 0..n }

Literals(nv) == { l \in (-nv)..nv : l # 0 }

\* A value no variable of the model ever holds otherwise.
None == "none"

(***************************************************************************)
(* Formula (Formula.h): three public fields that nothing ties together.    *)
(* numClauses is the number of clauses propagate() looks at, which need    *)
(* not be the number of stored clauses.                                    *)
(***************************************************************************)
Formula(nv, nc, cls) == [numVariables |-> nv, numClauses |-> nc, clauses |-> cls]

Clauses(nv) == SeqsUpTo(Literals(nv), MaxLits)

(***************************************************************************)
(* DPLLSolver::DPLLSolver: assigns(f.numVariables + 1, 0).                 *)
(***************************************************************************)
DPLLSolver(f) == [v \in 0..f.numVariables |-> 0]

(***************************************************************************)
(* DPLLSolver::solve, lines 12-14: the loop that clears assigns[1..n].     *)
(***************************************************************************)
solveResetNone(a, f) == a

solveReset(a, f) ==
  [v \in DOMAIN a |-> IF v >= 1 /\ v <= f.numVariables THEN 0 ELSE a[v]]

(***************************************************************************)
(* DPLLSolver::propagate, line 35: the literal evaluates true.             *)
(***************************************************************************)
litTrue(lit, a) ==
  (lit > 0 /\ a[abs(lit)] = 1) \/ (lit < 0 /\ a[abs(lit)] = -1)

\* lines 31-43: the inner for loop reads assigns[abs(lit)] for each literal
\* in order until one evaluates true; a literal whose variable is no index
\* of assigns is an out-of-bounds read.
scanOutOfBounds(clause, a) ==
  \E k \in 1..Len(clause) :
    /\ abs(clause[k]) \notin DOMAIN a
    /\ \A j \in 1..(k-1) : abs(clause[j]) \in DOMAIN a /\ ~litTrue(clause[j], a)

satisfiedOrEmpty(clause, a) ==
  Len(clause) = 0 \/ \E k \in 1..Len(clause) : litTrue(clause[k], a)

satisfied(clause, a) == \E k \in 1..Len(clause) : litTrue(clause[k], a)

unassignedLitsAll(clause, a) == clause

unassignedLits(clause, a) ==
  LET unset(lit) == a[abs(lit)] = 0 IN SelectSeq(clause, unset)

\* lines 49-51: on a conflict propagate() returns false and leaves assigns
\* as it is; entry is assigns as it was when propagate() was entered.
conflictAssignsRestored(a, entry) == entry

conflictAssigns(a, entry) == a

\* lines 57-61: the value that makes the unit literal true.
unitAssign(a, lit) == [a EXCEPT ![abs(lit)] = IF lit > 0 THEN 1 ELSE -1]

(***************************************************************************)
(* DPLLSolver::DPLL, lines 76-80, and DPLLSolver::pickUnassigned.          *)
(***************************************************************************)
allAssignedButLast(a, f) == \A v \in 1..(f.numVariables - 1) : a[v] # 0

allAssignedFromZero(a, f) == \A v \in 0..f.numVariables : a[v] # 0

allAssigned(a, f) == \A v \in 1..f.numVariables : a[v] # 0

pickUnassigned(a, f) ==
  IF \E v \in 1..f.numVariables : a[v] = 0
    THEN CHOOSE v \in 1..f.numVariables :
           /\ a[v] = 0
           /\ \A w \in 1..(v-1) : a[w] # 0
    ELSE -1

Frame(stage, var, entry) == [stage |-> stage, var |-> var, entry |-> entry]

Top == stack[Len(stack)]
Pop == SubSeq(stack, 1, Len(stack) - 1)
SetTop(fr) == [stack EXCEPT ![Len(stack)] = fr]

(***************************************************************************)
(* Initial state of the solver alone: a DPLLSolver constructed from a      *)
(* Formula, solve() not yet called.  The constructor takes any Formula;    *)
(* these are the Formulas on which every read of solve() is in bounds:     *)
(* numClauses is at most the number of stored clauses, which may be        *)
(* greater, and every literal indexes assigns.  The Formulas on which      *)
(* solve() reads out of bounds are reached through the parser, in          *)
(* SpecMain.                                                               *)
(***************************************************************************)
NoInput == [readable |-> FALSE, lines |-> << >>]

Init ==
  /\ \E nv \in 0..MaxVars, nc \in 0..MaxClauses :
       \E stored \in nc..MaxClauses :
         \E cls \in [1..stored -> Clauses(nv)] : formula = Formula(nv, nc, cls)
  /\ assigns = DPLLSolver(formula)
  /\ input = NoInput
  /\ lineNo = 0
  /\ headerFound = FALSE
  /\ indeterminate = {}
  /\ stack = << >>
  /\ ctl = "constructed"
  /\ i = 0
  /\ changed = FALSE
  /\ result = FALSE
  /\ propEntry = assigns
  /\ retEntry = assigns
  /\ verdict = None
  /\ runs = 0
  /\ first = None

parserVars == << input, lineNo, headerFound, indeterminate >>

(***************************************************************************)
(* solve(), lines 9-15: clear assigns[1..numVariables], call DPLL().       *)
(***************************************************************************)
solveCall ==
  /\ assigns' = solveReset(assigns, formula)
  /\ stack' = << Frame("propagate", 0, assigns') >>
  /\ ctl' = "enter"
  /\ runs' = runs + 1
  /\ verdict' = None
  /\ UNCHANGED << parserVars, formula, i, changed, result, propEntry, retEntry, first >>

\* The first solve() on a constructed solver (main.cpp line 12).
solve ==
  /\ ctl = "constructed"
  /\ solveCall

\* solve() called again on the same solver after an earlier call returned.
solveAgain ==
  /\ ctl = "done"
  /\ runs < MaxRuns
  /\ solveCall

(***************************************************************************)
(* propagate(), lines 21-26: entry, first pass of the while loop begins.   *)
(***************************************************************************)
propagateEnter ==
  /\ ctl = "enter"
  /\ ctl' = "scan"
  /\ i' = 0
  /\ changed' = FALSE
  /\ propEntry' = assigns
  /\ UNCHANGED << parserVars, formula, assigns, stack, result, retEntry, verdict, runs, first >>

(***************************************************************************)
(* propagate(), lines 26-65: one iteration of the for loop, on clause i.   *)
(***************************************************************************)
clauseInBounds ==
  /\ i < Len(formula.clauses)
  /\ ~scanOutOfBounds(formula.clauses[i + 1], assigns)

propagateClause ==
  /\ ctl = "scan"
  /\ i < formula.numClauses
  /\ clauseInBounds
  /\ LET clause == formula.clauses[i + 1]
         ul == unassignedLits(clause, assigns)
     IN IF satisfied(clause, assigns)
          THEN /\ i' = i + 1
               /\ UNCHANGED << assigns, changed, ctl, result >>
          ELSE IF Len(ul) = 0
            THEN /\ ctl' = "propret"
                 /\ result' = FALSE
                 /\ assigns' = conflictAssigns(assigns, propEntry)
                 /\ UNCHANGED << changed, i >>
            ELSE IF Len(ul) = 1
              THEN /\ assigns' = unitAssign(assigns, ul[1])
                   /\ changed' = TRUE
                   /\ i' = i + 1
                   /\ UNCHANGED << ctl, result >>
              ELSE /\ i' = i + 1
                   /\ UNCHANGED << assigns, changed, ctl, result >>
  /\ UNCHANGED << parserVars, formula, stack, propEntry, retEntry, verdict, runs, first >>

(***************************************************************************)
(* propagate(), lines 23-24 and 66-68: the for loop is over; another pass  *)
(* if this one changed something, otherwise return true.                   *)
(***************************************************************************)
passAgainAlways(c) == TRUE

passAgainNever(c) == FALSE

passAgain(c) == c

propagatePassEnd ==
  /\ ctl = "scan"
  /\ i >= formula.numClauses
  /\ IF passAgain(changed)
       THEN /\ changed' = FALSE
            /\ i' = 0
            /\ UNCHANGED << ctl, result >>
       ELSE /\ ctl' = "propret"
            /\ result' = TRUE
            /\ UNCHANGED << changed, i >>
  /\ UNCHANGED << parserVars, formula, assigns, stack, propEntry, retEntry, verdict, runs, first >>

(***************************************************************************)
(* DPLL(), lines 72-74: propagate() reported a conflict, return false.     *)
(***************************************************************************)
DPLLConflict ==
  /\ ctl = "propret"
  /\ result = FALSE
  /\ ctl' = "ret"
  /\ retEntry' = Top.entry
  /\ stack' = Pop
  /\ UNCHANGED << parserVars, formula, assigns, i, changed, result, propEntry, verdict, runs, first >>

(***************************************************************************)
(* DPLL(), lines 76-83: every variable is assigned, return true.           *)
(***************************************************************************)
DPLLComplete ==
  /\ ctl = "propret"
  /\ result = TRUE
  /\ allAssigned(assigns, formula)
  /\ ctl' = "ret"
  /\ retEntry' = Top.entry
  /\ stack' = Pop
  /\ UNCHANGED << parserVars, formula, assigns, i, changed, result, propEntry, verdict, runs, first >>

(***************************************************************************)
(* DPLL(), lines 85-87: pick a variable, set it to 1, recurse.             *)
(***************************************************************************)
DPLLBranchTrue ==
  /\ ctl = "propret"
  /\ result = TRUE
  /\ ~allAssigned(assigns, formula)
  /\ LET var == pickUnassigned(assigns, formula)
     IN /\ assigns' = [assigns EXCEPT ![abs(var)] = 1]
        /\ stack' = Append(SetTop(Frame("true", var, Top.entry)),
                           Frame("propagate", 0, assigns'))
  /\ ctl' = "enter"
  /\ UNCHANGED << parserVars, formula, i, changed, result, propEntry, retEntry, verdict, runs, first >>

(***************************************************************************)
(* DPLL(), lines 87-88 and 91-92: a recursive call returned true.          *)
(***************************************************************************)
DPLLChildSat ==
  /\ ctl = "ret"
  /\ Len(stack) > 0
  /\ result = TRUE
  /\ retEntry' = Top.entry
  /\ stack' = Pop
  /\ UNCHANGED << parserVars, formula, assigns, ctl, i, changed, result, propEntry, verdict, runs, first >>

(***************************************************************************)
(* DPLL(), lines 87-91: the call with var = 1 returned false; set var to   *)
(* -1 and recurse.                                                         *)
(***************************************************************************)
DPLLBranchFalseAlways ==
  /\ ctl = "ret"
  /\ Len(stack) > 0
  /\ Top.stage = "true"
  /\ assigns' = [assigns EXCEPT ![abs(Top.var)] = -1]
  /\ stack' = Append(SetTop(Frame("false", Top.var, Top.entry)),
                     Frame("propagate", 0, assigns'))
  /\ ctl' = "enter"
  /\ UNCHANGED << parserVars, formula, i, changed, result, propEntry, retEntry, verdict, runs, first >>

DPLLBranchFalse ==
  /\ ctl = "ret"
  /\ Len(stack) > 0
  /\ result = FALSE
  /\ Top.stage = "true"
  /\ assigns' = [assigns EXCEPT ![abs(Top.var)] = -1]
  /\ stack' = Append(SetTop(Frame("false", Top.var, Top.entry)),
                     Frame("propagate", 0, assigns'))
  /\ ctl' = "enter"
  /\ UNCHANGED << parserVars, formula, i, changed, result, propEntry, retEntry, verdict, runs, first >>

(***************************************************************************)
(* DPLL(), lines 91-95: the call with var = -1 returned false too; clear   *)
(* var and return false.                                                   *)
(***************************************************************************)
DPLLExhausted ==
  /\ ctl = "ret"
  /\ Len(stack) > 0
  /\ result = FALSE
  /\ Top.stage = "false"
  /\ assigns' = [assigns EXCEPT ![abs(Top.var)] = 0]
  /\ retEntry' = Top.entry
  /\ stack' = Pop
  /\ UNCHANGED << parserVars, formula, ctl, i, changed, result, propEntry, verdict, runs, first >>

(***************************************************************************)
(* solve(), lines 15-17: the root DPLL() call returned; solve() returns    *)
(* its result.                                                             *)
(***************************************************************************)
solveReturn ==
  /\ ctl = "ret"
  /\ Len(stack) = 0
  /\ ctl' = "done"
  /\ verdict' = result
  /\ first' = IF runs = 1 THEN [verdict |-> result, assigns |-> assigns] ELSE first
  /\ UNCHANGED << parserVars, formula, assigns, stack, i, changed, result, propEntry, retEntry, runs >>

(***************************************************************************)
(* CNFParser.  A line of the file is the sequence of its whitespace-       *)
(* separated tokens, each token a string.  operator>> on an int is ToInt:  *)
(* it succeeds on a decimal numeral and fails on any other token.          *)
(***************************************************************************)
Numerals == << "0", "1", "2", "3", "4" >>
NegNumerals == << "-1", "-2", "-3", "-4" >>

IsInt(tok) ==
  \/ \E n \in 1..Len(Numerals) : Numerals[n] = tok
  \/ \E n \in 1..Len(NegNumerals) : NegNumerals[n] = tok

ToInt(tok) ==
  IF \E n \in 1..Len(Numerals) : Numerals[n] = tok
    THEN (CHOOSE n \in 1..Len(Numerals) : Numerals[n] = tok) - 1
    ELSE -(CHOOSE n \in 1..Len(NegNumerals) : NegNumerals[n] = tok)

\* The text of an integer, as the input files write it.
Tok(n) == IF n >= 0 THEN Numerals[n + 1] ELSE NegNumerals[-n]

\* A line is the sequence of its pieces, in the order of its characters: a
\* piece is one white-space character or one word (a maximal run of other
\* characters).  The empty sequence is the empty line.
Blanks == { " ", "\t", "\r" }

\* What operator>> reads from a stringstream of the line: the words, the
\* white space between and around them skipped.
words(line) ==
  LET isWord(piece) == piece \notin Blanks
  IN SelectSeq(line, isWord)

\* Pieces of the model whose first character is 'c'.
StartsWithC(piece) == piece \in {"c", "cnf", "comment"}

\* CNFParser::isSkippable: line.rfind("c", 0) == 0 || line.empty(), a test of
\* the first character of the raw line.
isSkippable(line) == Len(line) = 0 \/ StartsWithC(line[1])

\* CNFParser::parse line 33: line.rfind("p ", 0) == 0, the first two
\* characters of the raw line are 'p' and a space.
startsWithP(line) == Len(line) >= 2 /\ line[1] = "p" /\ line[2] = " "

\* CNFParser::parseClause: read ints until one fails to parse, the line ends
\* or a 0 is read; the 0 is not pushed.
RECURSIVE parseClauseFrom(_, _)
parseClauseFrom(line, k) ==
  IF k > Len(line) THEN << >>
  ELSE IF ~IsInt(line[k]) THEN << >>
  ELSE IF ToInt(line[k]) = 0 THEN << >>
  ELSE << ToInt(line[k]) >> \o parseClauseFrom(line, k + 1)

parseClause(line) == parseClauseFrom(words(line), 1)

\* CNFParser::parseHeader: lineStream >> p >> cnf >> numVars >> numClauses.
\* The result names the reference parameters it wrote and their values: an
\* extraction at the end of the line writes nothing, a failed one writes 0
\* and stops the ones after it.
parseHeader(line) ==
  LET w == words(line)
      gotVars == Len(w) >= 3
      okVars == gotVars /\ IsInt(w[3])
      gotClauses == okVars /\ Len(w) >= 4
  IN [ written |-> (IF gotVars THEN {"numVars"} ELSE {}) \cup
                   (IF gotClauses THEN {"numClauses"} ELSE {}),
       numVars |-> IF okVars THEN ToInt(w[3]) ELSE 0,
       numClauses |-> IF gotClauses /\ IsInt(w[4]) THEN ToInt(w[4]) ELSE 0,
       invalid |-> ~(Len(w) >= 2 /\ w[1] = "p" /\ w[2] = "cnf") ]

(***************************************************************************)
(* CNFParser::parse, lines 28-43: one iteration of the getline loop.       *)
(* Line 35 passes formula.numClauses as parseHeader's numVars and          *)
(* formula.numVariables as its numClauses.  An invalid header only prints. *)
(***************************************************************************)
parseLine ==
  /\ ctl = "parse"
  /\ input.readable
  /\ lineNo < Len(input.lines)
  /\ lineNo' = lineNo + 1
  /\ LET line == input.lines[lineNo + 1]
         h == parseHeader(line)
         clause == parseClause(line)
     IN IF isSkippable(line)
          THEN UNCHANGED << headerFound, formula, indeterminate >>
          ELSE IF ~headerFound /\ startsWithP(line)
            THEN /\ headerFound' = TRUE
                 /\ formula' =
                      [formula EXCEPT
                         !.numClauses = IF "numVars" \in h.written
                                          THEN h.numVars ELSE @,
                         !.numVariables = IF "numClauses" \in h.written
                                            THEN h.numClauses ELSE @]
                 /\ indeterminate' =
                      indeterminate \ ( (IF "numVars" \in h.written
                                           THEN {"numClauses"} ELSE {}) \cup
                                        (IF "numClauses" \in h.written
                                           THEN {"numVariables"} ELSE {}) )
            ELSE /\ formula' =
                      IF Len(clause) # 0
                        THEN [formula EXCEPT !.clauses = Append(@, clause)]
                        ELSE formula
                 /\ UNCHANGED << headerFound, indeterminate >>
  /\ UNCHANGED << input, assigns, stack, ctl, i, changed, result, propEntry,
                  retEntry, verdict, runs, first >>

(***************************************************************************)
(* CNFParser::parse, lines 19-22, 28 and 45: getline fails, at once when   *)
(* the file could not be opened (the TODO of line 21 does nothing), and    *)
(* parse returns the Formula.                                              *)
(***************************************************************************)
parseReturn ==
  /\ ctl = "parse"
  /\ ~input.readable \/ lineNo >= Len(input.lines)
  /\ ctl' = "parsed"
  /\ UNCHANGED << parserVars, formula, assigns, stack, i, changed, result,
                  propEntry, retEntry, verdict, runs, first >>

(***************************************************************************)
(* main, lines 8-10: DPLLSolver solver(f).  A field of f that parse never  *)
(* wrote holds an indeterminate value.  std::vector's constructor throws   *)
(* std::length_error on a negative size, which nothing catches.            *)
(***************************************************************************)
Garbage == (-2)..1

construct ==
  /\ ctl = "parsed"
  /\ \E nv \in (IF "numVariables" \in indeterminate THEN Garbage ELSE {formula.numVariables}),
        nc \in (IF "numClauses" \in indeterminate THEN Garbage ELSE {formula.numClauses}) :
       /\ formula' = Formula(nv, nc, formula.clauses)
       /\ IF nv + 1 < 0
            THEN /\ ctl' = "crashed"
                 /\ UNCHANGED << assigns, propEntry, retEntry >>
            ELSE /\ ctl' = "constructed"
                 /\ assigns' = DPLLSolver(formula')
                 /\ propEntry' = assigns'
                 /\ retEntry' = assigns'
  /\ indeterminate' = {}
  /\ UNCHANGED << input, lineNo, headerFound, stack, i, changed, result, verdict, runs, first >>

(***************************************************************************)
(* propagate(), lines 27 and 33: formula.clauses[i] with i beyond the      *)
(* stored clauses, or assigns[var] with var beyond numVariables, is        *)
(* undefined behaviour: the run may crash or end with either verdict.      *)
(***************************************************************************)
propagateOutOfBounds ==
  /\ ctl = "scan"
  /\ i < formula.numClauses
  /\ ~clauseInBounds
  /\ ctl' = "undefined"
  /\ \E outcome \in {"crash", "SAT", "UNSAT"} :
       verdict' = IF outcome = "crash" THEN None ELSE (outcome = "SAT")
  /\ UNCHANGED << parserVars, formula, assigns, stack, i, changed, result,
                  propEntry, retEntry, runs, first >>

Next ==
  \/ solve
  \/ solveAgain
  \/ propagateEnter
  \/ propagateClause
  \/ propagatePassEnd
  \/ DPLLConflict
  \/ DPLLComplete
  \/ DPLLBranchTrue
  \/ DPLLChildSat
  \/ DPLLBranchFalse
  \/ DPLLExhausted
  \/ solveReturn

Spec == Init /\ [][Next]_vars

\* The program is sequential and runs without suspension: whenever a step
\* of the code is possible, one is eventually taken.
SpecLive == Init /\ [][Next]_vars /\ WF_vars(Next)

(***************************************************************************)
(* main(): the program run on a file.  The files of the model: optional    *)
(* comment and blank lines, at most one header line "p <word> V C", then   *)
(* clause lines of literals closed by 0; and the file that cannot be       *)
(* opened.                                                                 *)
(***************************************************************************)
\* The literals, each followed by one space, then the closing 0.
ClauseLine(lits) ==
  [k \in 1..(2 * Len(lits) + 1) |->
     IF k = 2 * Len(lits) + 1 THEN "0"
     ELSE IF k % 2 = 1 THEN Tok(lits[(k + 1) \div 2])
     ELSE " "]

ClauseLines == { ClauseLine(l) : l \in SeqsUpTo(Literals(MaxVars), MaxLits) }

\* "p cnf V C" with the white space sep after the p.
HeaderLine(sep, word, V, C) == << "p", sep, word, " ", Tok(V), " ", Tok(C) >>

\* No header; a header written from the first column, with a space or a tab
\* after the p; a header written after one leading space.
Headers ==
  { << >> } \cup
  { << HeaderLine(sep, w, V, C) >> :
      sep \in {" ", "\t"}, w \in {"cnf", "dnf"}, V \in 0..MaxVars, C \in 0..MaxLines } \cup
  { << << " " >> \o HeaderLine(" ", "cnf", V, C) >> :
      V \in 0..MaxVars, C \in 0..MaxLines }

\* Nothing; a comment line and an empty line; an indented comment line and
\* the line of a CRLF file that holds only the carriage return; a line that
\* holds only "p" and a space.
Preambles ==
  { << >>,
    << << "c", " ", "comment" >>, << >> >>,
    << << " ", "c", " ", "comment" >>, << "\r" >> >>,
    << << "p", " " >> >> }

Inputs ==
  { [readable |-> FALSE, lines |-> << >>] } \cup
  { [readable |-> TRUE, lines |-> pre \o h \o body] :
      pre \in Preambles, h \in Headers, body \in SeqsUpTo(ClauseLines, MaxLines) }

InitMain ==
  /\ input \in Inputs
  /\ lineNo = 0
  /\ headerFound = FALSE
  /\ indeterminate = {"numVariables", "numClauses"}
  /\ formula = Formula(0, 0, << >>)
  /\ assigns = << >>
  /\ stack = << >>
  /\ ctl = "parse"
  /\ i = 0
  /\ changed = FALSE
  /\ result = FALSE
  /\ propEntry = << >>
  /\ retEntry = << >>
  /\ verdict = None
  /\ runs = 0
  /\ first = None

NextMain ==
  \/ parseLine
  \/ parseReturn
  \/ construct
  \/ solve
  \/ propagateEnter
  \/ propagateClause
  \/ propagateOutOfBounds
  \/ propagatePassEnd
  \/ DPLLConflict
  \/ DPLLComplete
  \/ DPLLBranchTrue
  \/ DPLLChildSat
  \/ DPLLBranchFalse
  \/ DPLLExhausted
  \/ solveReturn

SpecMain == InitMain /\ [][NextMain]_vars

(***************************************************************************)
(* Reference semantics: brute-force enumeration of all assignments.        *)
(***************************************************************************)
Models(nv) == [1..nv -> {-1, 1}]

clauseHolds(clause, m) ==
  \E k \in 1..Len(clause) :
    (clause[k] > 0 /\ m[abs(clause[k])] = 1) \/ (clause[k] < 0 /\ m[abs(clause[k])] = -1)

bruteForceSat(f) ==
  \E m \in Models(f.numVariables) :
    \A c \in 1..Len(f.clauses) : clauseHolds(f.clauses[c], m)

(***************************************************************************)
(* C1. Whenever a DPLL() call, at any depth, returns false, assigns is     *)
(* entry for entry what it was when that call was entered.                  *)
(***************************************************************************)
C1_BacktrackingIntegrity ==
  (ctl = "ret" /\ result = FALSE) => assigns = retEntry

(***************************************************************************)
(* C2. Completeness: solve() returns false only if no assignment of the    *)
(* variables 1..numVariables satisfies every clause.                        *)
(***************************************************************************)
C2_Completeness ==
  (ctl = "done" /\ verdict = FALSE) => ~bruteForceSat(formula)

(***************************************************************************)
(* C3. Soundness: when solve() returns true, every clause stored in        *)
(* formula.clauses has a literal that is true under the final assigns.      *)
(***************************************************************************)
C3_Soundness ==
  (ctl = "done" /\ verdict = TRUE) =>
    \A c \in 1..Len(formula.clauses) :
      \E k \in 1..Len(formula.clauses[c]) :
        LET lit == formula.clauses[c][k]
        IN /\ abs(lit) \in DOMAIN assigns
           /\ (lit > 0 /\ assigns[abs(lit)] = 1) \/ (lit < 0 /\ assigns[abs(lit)] = -1)

(***************************************************************************)
(* C4. When solve() returns true, every variable 1..numVariables holds 1   *)
(* or -1; none is 0.                                                        *)
(***************************************************************************)
C4_CompleteModel ==
  (ctl = "done" /\ verdict = TRUE) =>
    \A v \in 1..formula.numVariables : assigns[v] \in {1, -1}

\* solve() returned true on a formula over two variables whose clauses
\* mention only the first one, so the second was set by a decision.
C4_Witness ==
  /\ ctl = "done"
  /\ verdict = TRUE
  /\ formula.numVariables = 2
  /\ Len(formula.clauses) > 0
  /\ \A c \in 1..Len(formula.clauses) :
       \A k \in 1..Len(formula.clauses[c]) : abs(formula.clauses[c][k]) = 1

(***************************************************************************)
(* C9. Termination: every solve() call returns.  Each DPLL() call is       *)
(* entered with strictly more assigned variables than its parent had at    *)
(* entry, so at most numVariables + 1 calls are ever nested, and every     *)
(* propagate() call returns.                                               *)
(***************************************************************************)
assignedCount(a) == Cardinality({ v \in 1..formula.numVariables : a[v] # 0 })

C9_Termination ==
  /\ (ctl = "enter") ~> (ctl = "done")
  /\ (ctl = "scan") ~> (ctl = "propret")
  /\ [](Len(stack) <= formula.numVariables + 1)
  /\ [](\A k \in 2..Len(stack) :
          assignedCount(stack[k].entry) > assignedCount(stack[k-1].entry))

\* A DPLL() call is entered at the greatest depth the claim allows: one
\* call for the root and one for each of the two variables.
C9_Witness ==
  /\ ctl = "enter"
  /\ formula.numVariables >= 2
  /\ Len(stack) = formula.numVariables + 1
  /\ stack[Len(stack) - 1].stage = "false"

(***************************************************************************)
(* C10. Determinism and reuse: a later solve() on the same solver returns  *)
(* the verdict of the first, and on SAT the same final assigns, whatever   *)
(* the earlier call left in assigns; every run starts with the variables   *)
(* 1..numVariables unassigned.                                             *)
(***************************************************************************)
C10_Determinism ==
  /\ (ctl = "done" /\ runs >= 2) =>
       /\ verdict = first.verdict
       /\ (verdict = TRUE => assigns = first.assigns)
  /\ (ctl = "enter" /\ Len(stack) = 1) =>
       \A v \in 1..formula.numVariables : assigns[v] = 0

\* The second solve() returned, the first one having left variables
\* assigned.
C10_Witness ==
  /\ ctl = "done"
  /\ runs = 2
  /\ \E v \in 1..formula.numVariables : first.assigns[v] # 0

(***************************************************************************)
(* The file as written, read by the rules of section 6 of the design:      *)
(* comment and blank lines skipped, then the header "p cnf V C", then one  *)
(* clause per line, the literals before the closing 0.                     *)
(***************************************************************************)
\* The lines of the file that are neither blank nor comments.
content(inp) ==
  LET kept(line) == Len(words(line)) # 0 /\ ~StartsWithC(words(line)[1])
  IN SelectSeq(inp.lines, kept)

\* Words separated by single spaces, the first in the first column.
plainLine(line) ==
  /\ Len(line) % 2 = 1
  /\ \A k \in 1..Len(line) : (k % 2 = 0) <=> (line[k] = " ")
  /\ \A k \in 1..Len(line) : (k % 2 = 1) => line[k] \notin Blanks

isHeaderLine(line) ==
  /\ plainLine(line)
  /\ Len(words(line)) = 4
  /\ words(line)[1] = "p"
  /\ words(line)[2] = "cnf"
  /\ IsInt(words(line)[3]) /\ ToInt(words(line)[3]) >= 0
  /\ IsInt(words(line)[4]) /\ ToInt(words(line)[4]) >= 0

isClauseLine(line) ==
  /\ plainLine(line)
  /\ \A k \in 1..Len(words(line)) : IsInt(words(line)[k])
  /\ words(line)[Len(words(line))] = "0"
  /\ \A k \in 1..(Len(words(line)) - 1) : ToInt(words(line)[k]) # 0

writtenClause(line) ==
  [k \in 1..(Len(words(line)) - 1) |-> ToInt(words(line)[k])]

hasHeader(inp) ==
  inp.readable /\ Len(content(inp)) >= 1 /\ isHeaderLine(content(inp)[1])

writtenVars(inp) == ToInt(words(content(inp)[1])[3])
writtenCount(inp) == ToInt(words(content(inp)[1])[4])

clauseLinesOnly(inp) ==
  \A k \in 2..Len(content(inp)) : isClauseLine(content(inp)[k])

writtenClauses(inp) ==
  [k \in 1..(Len(content(inp)) - 1) |-> writtenClause(content(inp)[k + 1])]

WellFormedInput(inp) ==
  /\ hasHeader(inp)
  /\ clauseLinesOnly(inp)
  /\ Len(content(inp)) - 1 = writtenCount(inp)
  /\ \A c \in 1..Len(writtenClauses(inp)) :
       \A k \in 1..Len(writtenClauses(inp)[c]) :
         abs(writtenClauses(inp)[c][k]) <= writtenVars(inp)

asWritten(inp) ==
  Formula(writtenVars(inp), writtenCount(inp), writtenClauses(inp))

inputError(inp) ==
  \/ ~inp.readable
  \/ Len(content(inp)) = 0
  \/ LET w == words(content(inp)[1])
     IN ~(Len(w) >= 2 /\ w[1] = "p" /\ w[2] = "cnf")

(***************************************************************************)
(* C5. End to end: for a well-formed file, parse then solve() returns the  *)
(* verdict of the clauses as written in the file; "p cnf 1 2" with the     *)
(* clauses [1] and [-1] is UNSAT.  Stated on the runs in which solve()     *)
(* returns.                                                                *)
(***************************************************************************)
C5_EndToEnd ==
  (ctl = "done" /\ WellFormedInput(input)) =>
    verdict = bruteForceSat(asWritten(input))

(***************************************************************************)
(* C6. For a header line "p cnf V C", parse returns a Formula with         *)
(* numVariables = V and numClauses = C.                                    *)
(***************************************************************************)
C6_HeaderFields ==
  (ctl = "parsed" /\ hasHeader(input)) =>
    /\ formula.numVariables = writtenVars(input)
    /\ formula.numClauses = writtenCount(input)

(***************************************************************************)
(* C7. parse stores one clause per clause line read, the literals before   *)
(* the closing 0 and never the 0; a line holding only the 0 is stored as   *)
(* an empty clause.                                                        *)
(***************************************************************************)
C7_EmptyClauseStored ==
  (ctl = "parsed" /\ hasHeader(input) /\ clauseLinesOnly(input)) =>
    /\ Len(formula.clauses) = Len(content(input)) - 1
    /\ \A c \in 1..Len(formula.clauses) :
         formula.clauses[c] = writtenClause(content(input)[c + 1])

(***************************************************************************)
(* C8. An input error (unreadable file, missing header, header whose       *)
(* first tokens are not "p" and "cnf") is fatal: solve() is never called.  *)
(***************************************************************************)
C8_InputErrorFatal ==
  inputError(input) => runs = 0

(***************************************************************************)
(* C11. A Formula whose stored clauses include an empty clause, counted    *)
(* within numClauses, is UNSAT: solve() returns false, whatever the other  *)
(* clauses and numVariables are.                                           *)
(***************************************************************************)
hasEmptyClause(f) ==
  \E c \in 1..Len(f.clauses) : c <= f.numClauses /\ Len(f.clauses[c]) = 0

C11_EmptyClauseUnsat ==
  (ctl = "done" /\ hasEmptyClause(formula)) => verdict = FALSE

\* solve() returned on a formula over two variables whose last clause is
\* the empty one, after propagate() assigned a variable for an earlier one.
C11_Witness ==
  /\ ctl = "done"
  /\ formula.numVariables = 2
  /\ formula.numClauses = 3
  /\ Len(formula.clauses) = 3
  /\ Len(formula.clauses[3]) = 0
  /\ Len(formula.clauses[2]) = 2
  /\ Len(formula.clauses[1]) = 1
  /\ \E v \in 1..2 : assigns[v] # 0

(***************************************************************************)
(* C12. A Formula with two unit clauses [v] and [-v] is UNSAT at once:     *)
(* the root call's propagate() finds the conflict, no branching decision   *)
(* is made (pickUnassigned is never called, no DPLL() call is nested) and  *)
(* solve() returns false.                                                  *)
(***************************************************************************)
hasOppositeUnits(f) ==
  \E c, d \in 1..Len(f.clauses) :
    /\ Len(f.clauses[c]) = 1
    /\ Len(f.clauses[d]) = 1
    /\ f.clauses[c][1] = -f.clauses[d][1]

C12_OppositeUnitsImmediate ==
  hasOppositeUnits(formula) =>
    /\ Len(stack) <= 1
    /\ \A k \in 1..Len(stack) : stack[k].stage = "propagate"
    /\ ~(ctl = "propret" /\ result = TRUE)
    /\ ctl = "done" => verdict = FALSE

(***************************************************************************)
(* The value of a literal and of a clause under an assignment.             *)
(***************************************************************************)
litIsTrue(lit, a) == (lit > 0 /\ a[abs(lit)] = 1) \/ (lit < 0 /\ a[abs(lit)] = -1)

litIsFalse(lit, a) == (lit > 0 /\ a[abs(lit)] = -1) \/ (lit < 0 /\ a[abs(lit)] = 1)

clauseIsTrue(clause, a) == \E k \in 1..Len(clause) : litIsTrue(clause[k], a)

clauseIsFalsified(clause, a) == \A k \in 1..Len(clause) : litIsFalse(clause[k], a)

clauseIsUnit(clause, a) ==
  /\ ~clauseIsTrue(clause, a)
  /\ Cardinality({ k \in 1..Len(clause) : a[abs(clause[k])] = 0 }) = 1

(***************************************************************************)
(* C13. Fixpoint postcondition of propagate(): when it returns true, none  *)
(* of the first numClauses clauses is falsified and none is unit under     *)
(* assigns; when it returns false, some clause has every literal false.    *)
(***************************************************************************)
C13_PropagateFixpoint ==
  ctl = "propret" =>
    IF result
      THEN \A c \in 1..formula.numClauses :
             /\ ~clauseIsFalsified(formula.clauses[c], assigns)
             /\ ~clauseIsUnit(formula.clauses[c], assigns)
      ELSE \E c \in 1..formula.numClauses :
             clauseIsFalsified(formula.clauses[c], assigns)

\* propagate() returned true in a nested DPLL() call after assigning a
\* variable itself, on a formula of three clauses.
C13_Witness ==
  /\ ctl = "propret"
  /\ result = TRUE
  /\ Len(stack) >= 2
  /\ assigns # propEntry
  /\ formula.numClauses = 3

(***************************************************************************)
(* C14. When propagate() finds a conflict and returns false it undoes      *)
(* nothing: every variable assigned when it was entered keeps its value,   *)
(* and no step of propagate(), the returning one included, clears or       *)
(* changes a variable that is assigned.                                    *)
(***************************************************************************)
C14_ConflictKeepsAssignments ==
  /\ []((ctl = "propret" /\ result = FALSE) =>
          \A v \in DOMAIN propEntry : propEntry[v] # 0 => assigns[v] = propEntry[v])
  /\ [][(ctl = "scan" /\ ctl' = "propret" /\ result' = FALSE) => assigns' = assigns]_vars
  /\ [][ctl = "scan" => \A v \in DOMAIN assigns : assigns[v] # 0 => assigns'[v] # 0]_vars

\* propagate() returned false in a nested call, having assigned a variable
\* itself: the variable is still assigned.
C14_Witness ==
  /\ ctl = "propret"
  /\ result = FALSE
  /\ Len(stack) >= 2
  /\ \E v \in 1..formula.numVariables : propEntry[v] = 0 /\ assigns[v] # 0

(***************************************************************************)
(* C18. Propagation is monotone: propagate() writes only to a variable     *)
(* that is unassigned at the write, the variable of a literal of the       *)
(* clause it is scanning, and gives it the value that makes that literal   *)
(* true; it never changes or clears an assigned variable.                  *)
(***************************************************************************)
C18_PropagateMonotone ==
  [][(ctl = "scan" /\ assigns' # assigns) =>
       /\ i < formula.numClauses
       /\ \E k \in 1..Len(formula.clauses[i + 1]) :
            LET lit == formula.clauses[i + 1][k]
            IN /\ assigns[abs(lit)] = 0
               /\ assigns'[abs(lit)] = (IF lit > 0 THEN 1 ELSE -1)
               /\ \A v \in DOMAIN assigns : v # abs(lit) => assigns'[v] = assigns[v]
       /\ ~clauseIsTrue(formula.clauses[i + 1], assigns)
       /\ clauseIsTrue(formula.clauses[i + 1], assigns')]_vars

\* propagate() is scanning after it wrote 1 for a positive unit literal and
\* -1 for a negative one in the same call.
C18_Witness ==
  /\ ctl = "scan"
  /\ changed = TRUE
  /\ \E v \in 1..formula.numVariables : propEntry[v] = 0 /\ assigns[v] = -1
  /\ \E v \in 1..formula.numVariables : propEntry[v] = 0 /\ assigns[v] = 1

(***************************************************************************)
(* C15. Branch ordering and short-circuit: a DPLL() call first sets the    *)
(* chosen variable to 1 and recurses; it sets it to -1 and recurses only   *)
(* after the call with 1 returned false; when a recursive call returns     *)
(* true, DPLL() returns true at once and changes nothing.                  *)
(***************************************************************************)
C15_TrueFirstShortCircuit ==
  [][/\ \A k \in 1..Len(stack) :
          (k <= Len(stack') /\ stack'[k].stage # stack[k].stage) =>
            \/ /\ stack[k].stage = "propagate"
               /\ stack'[k].stage = "true"
               /\ assigns[stack'[k].var] = 0
               /\ assigns'[stack'[k].var] = 1
               /\ Len(stack') = k + 1
            \/ /\ stack[k].stage = "true"
               /\ stack'[k].stage = "false"
               /\ stack'[k].var = stack[k].var
               /\ ctl = "ret" /\ result = FALSE
               /\ assigns'[stack'[k].var] = -1
               /\ Len(stack') = k + 1
     /\ \A k \in (Len(stack) + 1)..Len(stack') : stack'[k].stage = "propagate"
     /\ (ctl = "ret" /\ result = TRUE /\ Len(stack) > 0) =>
          /\ stack' = Pop
          /\ ctl' = "ret"
          /\ result' = TRUE
          /\ assigns' = assigns]_vars

\* The recursive call made with the variable set to 1 returned true to a
\* nested DPLL() call, which now returns true without trying -1.
C15_Witness ==
  /\ ctl = "ret"
  /\ result = TRUE
  /\ Len(stack) >= 2
  /\ Top.stage = "true"
  /\ assigns[Top.var] = 1

(***************************************************************************)
(* C16. Decision strategy: where DPLL() calls pickUnassigned() (propagate  *)
(* returned true and not every variable is assigned) it returns the        *)
(* lowest-numbered unassigned variable of 1..numVariables, never -1; the   *)
(* variable of every branching DPLL() call is a variable of the formula.   *)
(***************************************************************************)
C16_PickLowestUnassigned ==
  /\ (ctl = "propret" /\ result = TRUE /\ ~allAssigned(assigns, formula)) =>
       LET var == pickUnassigned(assigns, formula)
       IN /\ var # -1
          /\ var \in 1..formula.numVariables
          /\ assigns[var] = 0
          /\ \A w \in 1..(var - 1) : assigns[w] # 0
  /\ \A k \in 1..Len(stack) :
       stack[k].stage # "propagate" => stack[k].var \in 1..formula.numVariables

\* DPLL() is about to branch in a nested call where variable 1 is assigned
\* and variable 2 is the one pickUnassigned() returns.
C16_Witness ==
  /\ ctl = "propret"
  /\ result = TRUE
  /\ Len(stack) >= 2
  /\ ~allAssigned(assigns, formula)
  /\ pickUnassigned(assigns, formula) = 2

(***************************************************************************)
(* C17. Index safety across the parser/solver boundary: the Formula that   *)
(* parse produces from a well-formed input has numClauses equal to the     *)
(* number of stored clauses and every literal of magnitude at most         *)
(* numVariables, and solve() on it never reads formula.clauses or assigns  *)
(* out of bounds.                                                          *)
(***************************************************************************)
C17_IndexSafety ==
  (WellFormedInput(input) /\ ctl # "parse") =>
    /\ formula.numClauses = Len(formula.clauses)
    /\ \A c \in 1..Len(formula.clauses) :
         \A k \in 1..Len(formula.clauses[c]) :
           abs(formula.clauses[c][k]) <= formula.numVariables
    /\ ctl # "undefined"

====
